---------------------------- MODULE Spec2Model ----------------------------
(***************************************************************************)
(* Model of the coffee-shop drinks API (src/backend/src/api.py): five      *)
(* Flask routes over one table of drinks, four of them behind the          *)
(* requires_auth decorator.                                                *)
(*                                                                         *)
(* Text (a Python str, a stored recipe column) is the sequence of the      *)
(* code points of its characters: "[1]" is <<91, 49, 93>>.  A number, int   *)
(* or float, is the text repr() writes for it: the int 12 is <<49, 50>>,   *)
(* the float that 1.50 and 15e-1 both write is <<49, 46, 53>>.             *)
(***************************************************************************)
EXTENDS Integers, Sequences, FiniteSets, TLC

\* ------------------------------------------------------------- bounds
\* Rows the table may ever have held (the auto-increment id stops here).
MaxDrinks == 2
\* Rows of the table while PATCH requests run in parallel.
RaceDrinks == 1

\* ------------------------------------------------------- JSON values
\* The characters ' and " and \.
SQ == 39
DQ == 34
BS == 92

\* A key that a JSON object does not carry (dict.get falls to its default).
Absent == [t |-> "absent"]
JNull == [t |-> "null"]
JBool(b) == [t |-> "bool", b |-> b]
\* r: the text repr() writes for the number, e.g. -12, and for a float 1.5,
\* 1e+16, inf, -inf or nan
JNum(r) == [t |-> "num", r |-> r]
JFloat(r) == [t |-> "float", r |-> r]
JStr(s) == [t |-> "str", s |-> s]
JList(xs) == [t |-> "list", xs |-> xs]
\* kv: the members in order, each <<key text, value>>.
JObj(kv) == [t |-> "obj", kv |-> kv]

\* The one element of a set of one element.
The(S) == CHOOSE x \in S : TRUE

Contains(s, c) == \E i \in DOMAIN s : s[i] = c

\* The lowercase hexadecimal digit of d.
HexDigit(d) == IF d < 10 THEN 48 + d ELSE 87 + d

RECURSIVE HexN(_, _)
\* c in n hexadecimal digits.
HexN(c, n) == IF n = 0 THEN <<>> ELSE HexN(c \div 16, n - 1) \o <<HexDigit(c % 16)>>

\* The code points that str.isprintable() rejects, as ranges <<first, last>>:
\* those of the Unicode 14.0.0 categories Cc, Cf, Cs, Co, Cn, Zl, Zp and Zs,
\* the blank (32) apart.
NonPrintable == {
    <<0, 31>>, <<127, 160>>, <<173, 173>>, <<888, 889>>, <<896, 899>>,
    <<907, 907>>, <<909, 909>>, <<930, 930>>, <<1328, 1328>>, <<1367, 1368>>,
    <<1419, 1420>>, <<1424, 1424>>, <<1480, 1487>>, <<1515, 1518>>,
    <<1525, 1541>>, <<1564, 1564>>, <<1757, 1757>>, <<1806, 1807>>,
    <<1867, 1868>>, <<1970, 1983>>, <<2043, 2044>>, <<2094, 2095>>,
    <<2111, 2111>>, <<2140, 2141>>, <<2143, 2143>>, <<2155, 2159>>,
    <<2191, 2199>>, <<2274, 2274>>, <<2436, 2436>>, <<2445, 2446>>,
    <<2449, 2450>>, <<2473, 2473>>, <<2481, 2481>>, <<2483, 2485>>,
    <<2490, 2491>>, <<2501, 2502>>, <<2505, 2506>>, <<2511, 2518>>,
    <<2520, 2523>>, <<2526, 2526>>, <<2532, 2533>>, <<2559, 2560>>,
    <<2564, 2564>>, <<2571, 2574>>, <<2577, 2578>>, <<2601, 2601>>,
    <<2609, 2609>>, <<2612, 2612>>, <<2615, 2615>>, <<2618, 2619>>,
    <<2621, 2621>>, <<2627, 2630>>, <<2633, 2634>>, <<2638, 2640>>,
    <<2642, 2648>>, <<2653, 2653>>, <<2655, 2661>>, <<2679, 2688>>,
    <<2692, 2692>>, <<2702, 2702>>, <<2706, 2706>>, <<2729, 2729>>,
    <<2737, 2737>>, <<2740, 2740>>, <<2746, 2747>>, <<2758, 2758>>,
    <<2762, 2762>>, <<2766, 2767>>, <<2769, 2783>>, <<2788, 2789>>,
    <<2802, 2808>>, <<2816, 2816>>, <<2820, 2820>>, <<2829, 2830>>,
    <<2833, 2834>>, <<2857, 2857>>, <<2865, 2865>>, <<2868, 2868>>,
    <<2874, 2875>>, <<2885, 2886>>, <<2889, 2890>>, <<2894, 2900>>,
    <<2904, 2907>>, <<2910, 2910>>, <<2916, 2917>>, <<2936, 2945>>,
    <<2948, 2948>>, <<2955, 2957>>, <<2961, 2961>>, <<2966, 2968>>,
    <<2971, 2971>>, <<2973, 2973>>, <<2976, 2978>>, <<2981, 2983>>,
    <<2987, 2989>>, <<3002, 3005>>, <<3011, 3013>>, <<3017, 3017>>,
    <<3022, 3023>>, <<3025, 3030>>, <<3032, 3045>>, <<3067, 3071>>,
    <<3085, 3085>>, <<3089, 3089>>, <<3113, 3113>>, <<3130, 3131>>,
    <<3141, 3141>>, <<3145, 3145>>, <<3150, 3156>>, <<3159, 3159>>,
    <<3163, 3164>>, <<3166, 3167>>, <<3172, 3173>>, <<3184, 3190>>,
    <<3213, 3213>>, <<3217, 3217>>, <<3241, 3241>>, <<3252, 3252>>,
    <<3258, 3259>>, <<3269, 3269>>, <<3273, 3273>>, <<3278, 3284>>,
    <<3287, 3292>>, <<3295, 3295>>, <<3300, 3301>>, <<3312, 3312>>,
    <<3315, 3327>>, <<3341, 3341>>, <<3345, 3345>>, <<3397, 3397>>,
    <<3401, 3401>>, <<3408, 3411>>, <<3428, 3429>>, <<3456, 3456>>,
    <<3460, 3460>>, <<3479, 3481>>, <<3506, 3506>>, <<3516, 3516>>,
    <<3518, 3519>>, <<3527, 3529>>, <<3531, 3534>>, <<3541, 3541>>,
    <<3543, 3543>>, <<3552, 3557>>, <<3568, 3569>>, <<3573, 3584>>,
    <<3643, 3646>>, <<3676, 3712>>, <<3715, 3715>>, <<3717, 3717>>,
    <<3723, 3723>>, <<3748, 3748>>, <<3750, 3750>>, <<3774, 3775>>,
    <<3781, 3781>>, <<3783, 3783>>, <<3790, 3791>>, <<3802, 3803>>,
    <<3808, 3839>>, <<3912, 3912>>, <<3949, 3952>>, <<3992, 3992>>,
    <<4029, 4029>>, <<4045, 4045>>, <<4059, 4095>>, <<4294, 4294>>,
    <<4296, 4300>>, <<4302, 4303>>, <<4681, 4681>>, <<4686, 4687>>,
    <<4695, 4695>>, <<4697, 4697>>, <<4702, 4703>>, <<4745, 4745>>,
    <<4750, 4751>>, <<4785, 4785>>, <<4790, 4791>>, <<4799, 4799>>,
    <<4801, 4801>>, <<4806, 4807>>, <<4823, 4823>>, <<4881, 4881>>,
    <<4886, 4887>>, <<4955, 4956>>, <<4989, 4991>>, <<5018, 5023>>,
    <<5110, 5111>>, <<5118, 5119>>, <<5760, 5760>>, <<5789, 5791>>,
    <<5881, 5887>>, <<5910, 5918>>, <<5943, 5951>>, <<5972, 5983>>,
    <<5997, 5997>>, <<6001, 6001>>, <<6004, 6015>>, <<6110, 6111>>,
    <<6122, 6127>>, <<6138, 6143>>, <<6158, 6158>>, <<6170, 6175>>,
    <<6265, 6271>>, <<6315, 6319>>, <<6390, 6399>>, <<6431, 6431>>,
    <<6444, 6447>>, <<6460, 6463>>, <<6465, 6467>>, <<6510, 6511>>,
    <<6517, 6527>>, <<6572, 6575>>, <<6602, 6607>>, <<6619, 6621>>,
    <<6684, 6685>>, <<6751, 6751>>, <<6781, 6782>>, <<6794, 6799>>,
    <<6810, 6815>>, <<6830, 6831>>, <<6863, 6911>>, <<6989, 6991>>,
    <<7039, 7039>>, <<7156, 7163>>, <<7224, 7226>>, <<7242, 7244>>,
    <<7305, 7311>>, <<7355, 7356>>, <<7368, 7375>>, <<7419, 7423>>,
    <<7958, 7959>>, <<7966, 7967>>, <<8006, 8007>>, <<8014, 8015>>,
    <<8024, 8024>>, <<8026, 8026>>, <<8028, 8028>>, <<8030, 8030>>,
    <<8062, 8063>>, <<8117, 8117>>, <<8133, 8133>>, <<8148, 8149>>,
    <<8156, 8156>>, <<8176, 8177>>, <<8181, 8181>>, <<8191, 8207>>,
    <<8232, 8239>>, <<8287, 8303>>, <<8306, 8307>>, <<8335, 8335>>,
    <<8349, 8351>>, <<8385, 8399>>, <<8433, 8447>>, <<8588, 8591>>,
    <<9255, 9279>>, <<9291, 9311>>, <<11124, 11125>>, <<11158, 11158>>,
    <<11508, 11512>>, <<11558, 11558>>, <<11560, 11564>>, <<11566, 11567>>,
    <<11624, 11630>>, <<11633, 11646>>, <<11671, 11679>>, <<11687, 11687>>,
    <<11695, 11695>>, <<11703, 11703>>, <<11711, 11711>>, <<11719, 11719>>,
    <<11727, 11727>>, <<11735, 11735>>, <<11743, 11743>>, <<11870, 11903>>,
    <<11930, 11930>>, <<12020, 12031>>, <<12246, 12271>>, <<12284, 12288>>,
    <<12352, 12352>>, <<12439, 12440>>, <<12544, 12548>>, <<12592, 12592>>,
    <<12687, 12687>>, <<12772, 12783>>, <<12831, 12831>>, <<42125, 42127>>,
    <<42183, 42191>>, <<42540, 42559>>, <<42744, 42751>>, <<42955, 42959>>,
    <<42962, 42962>>, <<42964, 42964>>, <<42970, 42993>>, <<43053, 43055>>,
    <<43066, 43071>>, <<43128, 43135>>, <<43206, 43213>>, <<43226, 43231>>,
    <<43348, 43358>>, <<43389, 43391>>, <<43470, 43470>>, <<43482, 43485>>,
    <<43519, 43519>>, <<43575, 43583>>, <<43598, 43599>>, <<43610, 43611>>,
    <<43715, 43738>>, <<43767, 43776>>, <<43783, 43784>>, <<43791, 43792>>,
    <<43799, 43807>>, <<43815, 43815>>, <<43823, 43823>>, <<43884, 43887>>,
    <<44014, 44015>>, <<44026, 44031>>, <<55204, 55215>>, <<55239, 55242>>,
    <<55292, 63743>>, <<64110, 64111>>, <<64218, 64255>>, <<64263, 64274>>,
    <<64280, 64284>>, <<64311, 64311>>, <<64317, 64317>>, <<64319, 64319>>,
    <<64322, 64322>>, <<64325, 64325>>, <<64451, 64466>>, <<64912, 64913>>,
    <<64968, 64974>>, <<64976, 65007>>, <<65050, 65055>>, <<65107, 65107>>,
    <<65127, 65127>>, <<65132, 65135>>, <<65141, 65141>>, <<65277, 65280>>,
    <<65471, 65473>>, <<65480, 65481>>, <<65488, 65489>>, <<65496, 65497>>,
    <<65501, 65503>>, <<65511, 65511>>, <<65519, 65531>>, <<65534, 65535>>,
    <<65548, 65548>>, <<65575, 65575>>, <<65595, 65595>>, <<65598, 65598>>,
    <<65614, 65615>>, <<65630, 65663>>, <<65787, 65791>>, <<65795, 65798>>,
    <<65844, 65846>>, <<65935, 65935>>, <<65949, 65951>>, <<65953, 65999>>,
    <<66046, 66175>>, <<66205, 66207>>, <<66257, 66271>>, <<66300, 66303>>,
    <<66340, 66348>>, <<66379, 66383>>, <<66427, 66431>>, <<66462, 66462>>,
    <<66500, 66503>>, <<66518, 66559>>, <<66718, 66719>>, <<66730, 66735>>,
    <<66772, 66775>>, <<66812, 66815>>, <<66856, 66863>>, <<66916, 66926>>,
    <<66939, 66939>>, <<66955, 66955>>, <<66963, 66963>>, <<66966, 66966>>,
    <<66978, 66978>>, <<66994, 66994>>, <<67002, 67002>>, <<67005, 67071>>,
    <<67383, 67391>>, <<67414, 67423>>, <<67432, 67455>>, <<67462, 67462>>,
    <<67505, 67505>>, <<67515, 67583>>, <<67590, 67591>>, <<67593, 67593>>,
    <<67638, 67638>>, <<67641, 67643>>, <<67645, 67646>>, <<67670, 67670>>,
    <<67743, 67750>>, <<67760, 67807>>, <<67827, 67827>>, <<67830, 67834>>,
    <<67868, 67870>>, <<67898, 67902>>, <<67904, 67967>>, <<68024, 68027>>,
    <<68048, 68049>>, <<68100, 68100>>, <<68103, 68107>>, <<68116, 68116>>,
    <<68120, 68120>>, <<68150, 68151>>, <<68155, 68158>>, <<68169, 68175>>,
    <<68185, 68191>>, <<68256, 68287>>, <<68327, 68330>>, <<68343, 68351>>,
    <<68406, 68408>>, <<68438, 68439>>, <<68467, 68471>>, <<68498, 68504>>,
    <<68509, 68520>>, <<68528, 68607>>, <<68681, 68735>>, <<68787, 68799>>,
    <<68851, 68857>>, <<68904, 68911>>, <<68922, 69215>>, <<69247, 69247>>,
    <<69290, 69290>>, <<69294, 69295>>, <<69298, 69375>>, <<69416, 69423>>,
    <<69466, 69487>>, <<69514, 69551>>, <<69580, 69599>>, <<69623, 69631>>,
    <<69710, 69713>>, <<69750, 69758>>, <<69821, 69821>>, <<69827, 69839>>,
    <<69865, 69871>>, <<69882, 69887>>, <<69941, 69941>>, <<69960, 69967>>,
    <<70007, 70015>>, <<70112, 70112>>, <<70133, 70143>>, <<70162, 70162>>,
    <<70207, 70271>>, <<70279, 70279>>, <<70281, 70281>>, <<70286, 70286>>,
    <<70302, 70302>>, <<70314, 70319>>, <<70379, 70383>>, <<70394, 70399>>,
    <<70404, 70404>>, <<70413, 70414>>, <<70417, 70418>>, <<70441, 70441>>,
    <<70449, 70449>>, <<70452, 70452>>, <<70458, 70458>>, <<70469, 70470>>,
    <<70473, 70474>>, <<70478, 70479>>, <<70481, 70486>>, <<70488, 70492>>,
    <<70500, 70501>>, <<70509, 70511>>, <<70517, 70655>>, <<70748, 70748>>,
    <<70754, 70783>>, <<70856, 70863>>, <<70874, 71039>>, <<71094, 71095>>,
    <<71134, 71167>>, <<71237, 71247>>, <<71258, 71263>>, <<71277, 71295>>,
    <<71354, 71359>>, <<71370, 71423>>, <<71451, 71452>>, <<71468, 71471>>,
    <<71495, 71679>>, <<71740, 71839>>, <<71923, 71934>>, <<71943, 71944>>,
    <<71946, 71947>>, <<71956, 71956>>, <<71959, 71959>>, <<71990, 71990>>,
    <<71993, 71994>>, <<72007, 72015>>, <<72026, 72095>>, <<72104, 72105>>,
    <<72152, 72153>>, <<72165, 72191>>, <<72264, 72271>>, <<72355, 72367>>,
    <<72441, 72703>>, <<72713, 72713>>, <<72759, 72759>>, <<72774, 72783>>,
    <<72813, 72815>>, <<72848, 72849>>, <<72872, 72872>>, <<72887, 72959>>,
    <<72967, 72967>>, <<72970, 72970>>, <<73015, 73017>>, <<73019, 73019>>,
    <<73022, 73022>>, <<73032, 73039>>, <<73050, 73055>>, <<73062, 73062>>,
    <<73065, 73065>>, <<73103, 73103>>, <<73106, 73106>>, <<73113, 73119>>,
    <<73130, 73439>>, <<73465, 73647>>, <<73649, 73663>>, <<73714, 73726>>,
    <<74650, 74751>>, <<74863, 74863>>, <<74869, 74879>>, <<75076, 77711>>,
    <<77811, 77823>>, <<78895, 82943>>, <<83527, 92159>>, <<92729, 92735>>,
    <<92767, 92767>>, <<92778, 92781>>, <<92863, 92863>>, <<92874, 92879>>,
    <<92910, 92911>>, <<92918, 92927>>, <<92998, 93007>>, <<93018, 93018>>,
    <<93026, 93026>>, <<93048, 93052>>, <<93072, 93759>>, <<93851, 93951>>,
    <<94027, 94030>>, <<94088, 94094>>, <<94112, 94175>>, <<94181, 94191>>,
    <<94194, 94207>>, <<100344, 100351>>, <<101590, 101631>>,
    <<101641, 110575>>, <<110580, 110580>>, <<110588, 110588>>,
    <<110591, 110591>>, <<110883, 110927>>, <<110931, 110947>>,
    <<110952, 110959>>, <<111356, 113663>>, <<113771, 113775>>,
    <<113789, 113791>>, <<113801, 113807>>, <<113818, 113819>>,
    <<113824, 118527>>, <<118574, 118575>>, <<118599, 118607>>,
    <<118724, 118783>>, <<119030, 119039>>, <<119079, 119080>>,
    <<119155, 119162>>, <<119275, 119295>>, <<119366, 119519>>,
    <<119540, 119551>>, <<119639, 119647>>, <<119673, 119807>>,
    <<119893, 119893>>, <<119965, 119965>>, <<119968, 119969>>,
    <<119971, 119972>>, <<119975, 119976>>, <<119981, 119981>>,
    <<119994, 119994>>, <<119996, 119996>>, <<120004, 120004>>,
    <<120070, 120070>>, <<120075, 120076>>, <<120085, 120085>>,
    <<120093, 120093>>, <<120122, 120122>>, <<120127, 120127>>,
    <<120133, 120133>>, <<120135, 120137>>, <<120145, 120145>>,
    <<120486, 120487>>, <<120780, 120781>>, <<121484, 121498>>,
    <<121504, 121504>>, <<121520, 122623>>, <<122655, 122879>>,
    <<122887, 122887>>, <<122905, 122906>>, <<122914, 122914>>,
    <<122917, 122917>>, <<122923, 123135>>, <<123181, 123183>>,
    <<123198, 123199>>, <<123210, 123213>>, <<123216, 123535>>,
    <<123567, 123583>>, <<123642, 123646>>, <<123648, 124895>>,
    <<124903, 124903>>, <<124908, 124908>>, <<124911, 124911>>,
    <<124927, 124927>>, <<125125, 125126>>, <<125143, 125183>>,
    <<125260, 125263>>, <<125274, 125277>>, <<125280, 126064>>,
    <<126133, 126208>>, <<126270, 126463>>, <<126468, 126468>>,
    <<126496, 126496>>, <<126499, 126499>>, <<126501, 126502>>,
    <<126504, 126504>>, <<126515, 126515>>, <<126520, 126520>>,
    <<126522, 126522>>, <<126524, 126529>>, <<126531, 126534>>,
    <<126536, 126536>>, <<126538, 126538>>, <<126540, 126540>>,
    <<126544, 126544>>, <<126547, 126547>>, <<126549, 126550>>,
    <<126552, 126552>>, <<126554, 126554>>, <<126556, 126556>>,
    <<126558, 126558>>, <<126560, 126560>>, <<126563, 126563>>,
    <<126565, 126566>>, <<126571, 126571>>, <<126579, 126579>>,
    <<126584, 126584>>, <<126589, 126589>>, <<126591, 126591>>,
    <<126602, 126602>>, <<126620, 126624>>, <<126628, 126628>>,
    <<126634, 126634>>, <<126652, 126703>>, <<126706, 126975>>,
    <<127020, 127023>>, <<127124, 127135>>, <<127151, 127152>>,
    <<127168, 127168>>, <<127184, 127184>>, <<127222, 127231>>,
    <<127406, 127461>>, <<127491, 127503>>, <<127548, 127551>>,
    <<127561, 127567>>, <<127570, 127583>>, <<127590, 127743>>,
    <<128728, 128732>>, <<128749, 128751>>, <<128765, 128767>>,
    <<128884, 128895>>, <<128985, 128991>>, <<129004, 129007>>,
    <<129009, 129023>>, <<129036, 129039>>, <<129096, 129103>>,
    <<129114, 129119>>, <<129160, 129167>>, <<129198, 129199>>,
    <<129202, 129279>>, <<129620, 129631>>, <<129646, 129647>>,
    <<129653, 129655>>, <<129661, 129663>>, <<129671, 129679>>,
    <<129709, 129711>>, <<129723, 129727>>, <<129734, 129743>>,
    <<129754, 129759>>, <<129768, 129775>>, <<129783, 129791>>,
    <<129939, 129939>>, <<129995, 130031>>, <<130042, 131071>>,
    <<173792, 173823>>, <<177977, 177983>>, <<178206, 178207>>,
    <<183970, 183983>>, <<191457, 194559>>, <<195102, 196607>>,
    <<201547, 917759>>, <<918000, 1114111>>}

\* str.isprintable() of one character.
IsPrintable(c) ==
    \/ c \in 32 .. 126
    \/ ~\E r \in NonPrintable : r[1] <= c /\ c <= r[2]

\* One character inside repr's quotes.
ReprChar(c, quote) ==
    IF c = quote \/ c = BS THEN <<BS, c>>
    ELSE IF c = 9 THEN <<BS, 116>>                     \* \t
    ELSE IF c = 10 THEN <<BS, 110>>                    \* \n
    ELSE IF c = 13 THEN <<BS, 114>>                    \* \r
    ELSE IF IsPrintable(c) THEN <<c>>
    ELSE IF c < 256 THEN <<BS, 120>> \o HexN(c, 2)     \* \xNN
    ELSE IF c < 65536 THEN <<BS, 117>> \o HexN(c, 4)   \* \uNNNN
    ELSE <<BS, 85>> \o HexN(c, 8)                      \* \UNNNNNNNN

RECURSIVE ReprChars(_, _)
ReprChars(s, quote) ==
    IF s = <<>> THEN <<>> ELSE ReprChar(Head(s), quote) \o ReprChars(Tail(s), quote)

\* Python's repr of a str: quoted with ', unless the text holds a ' and no ".
PyReprStr(s) ==
    LET quote == IF Contains(s, SQ) /\ ~Contains(s, DQ) THEN DQ ELSE SQ IN
    <<quote>> \o ReprChars(s, quote) \o <<quote>>

RECURSIVE Decimal(_)
\* The decimal digits of a natural number.
Decimal(n) ==
    IF n < 10 THEN <<48 + n>> ELSE Decimal(n \div 10) \o <<48 + (n % 10)>>

RECURSIVE PyRepr(_), ReprItems(_), ReprMembers(_)
\* Python's repr of the object request.get_json() built from a JSON value.
PyRepr(v) ==
    CASE v.t = "null" -> <<78, 111, 110, 101>>                   \* None
      [] v.t = "bool" -> IF v.b THEN <<84, 114, 117, 101>>       \* True
                         ELSE <<70, 97, 108, 115, 101>>          \* False
      [] v.t = "num"  -> v.r
      [] v.t = "float" -> v.r
      [] v.t = "str"  -> PyReprStr(v.s)
      [] v.t = "list" -> <<91>> \o ReprItems(v.xs) \o <<93>>     \* [ ]
      [] v.t = "obj"  -> <<123>> \o ReprMembers(v.kv) \o <<125>> \* { }

\* The items, a comma and a blank between them.
ReprItems(xs) ==
    IF xs = <<>> THEN <<>>
    ELSE PyRepr(Head(xs))
         \o (IF Tail(xs) = <<>> THEN <<>> ELSE <<44, 32>> \o ReprItems(Tail(xs)))

\* The members, key: value, a comma and a blank between them.
ReprMembers(kv) ==
    IF kv = <<>> THEN <<>>
    ELSE PyReprStr(Head(kv)[1]) \o <<58, 32>> \o PyRepr(Head(kv)[2])
         \o (IF Tail(kv) = <<>> THEN <<>> ELSE <<44, 32>> \o ReprMembers(Tail(kv)))

\* str(x): a str is its own text, anything else its repr.
PyStr(v) == IF v.t = "str" THEN v.s ELSE PyRepr(v)

\* .replace('\'', '\"')
ReplaceQuotes(s) == [i \in DOMAIN s |-> IF s[i] = SQ THEN DQ ELSE s[i]]

\* str(value).replace('\'','\"'): the text written to the recipe column.
NormalizeRecipe(v) == ReplaceQuotes(PyStr(v))

\* ---------------------------------------------------------- json.loads
Digits == 48 .. 57
\* blank, tab, line feed, carriage return
Whitespace == {32, 9, 10, 13}
Fail == [ok |-> FALSE]
Got(v, next) == [ok |-> TRUE, v |-> v, next |-> next]

\* The character at position i, -1 past the end.
At(s, i) == IF i \in DOMAIN s THEN s[i] ELSE -1

RECURSIVE SkipWs(_, _)
\* The first position from i on that holds no whitespace.
SkipWs(s, i) == IF At(s, i) \in Whitespace THEN SkipWs(s, i + 1) ELSE i

\* The literal lit is written at position i.
MatchAt(s, i, lit) == \A k \in DOMAIN lit : At(s, i + k - 1) = lit[k]

\* The value of a hexadecimal digit, 16 for any other character.
HexValue(c) ==
    IF c \in 48 .. 57 THEN c - 48
    ELSE IF c \in 97 .. 102 THEN c - 87
    ELSE IF c \in 65 .. 70 THEN c - 55
    ELSE 16

\* The code point written by the four hexadecimal digits at i, else -1.
Hex4(s, i) ==
    IF \A k \in 0 .. 3 : HexValue(At(s, i + k)) < 16
    THEN HexValue(s[i]) * 4096 + HexValue(s[i + 1]) * 256
         + HexValue(s[i + 2]) * 16 + HexValue(s[i + 3])
    ELSE -1

\* The character a one-letter escape stands for, -1 when there is none:
\* \" \\ \/ \b \f \n \r \t
Unescape(c) ==
    CASE c = DQ -> DQ
      [] c = BS -> BS
      [] c = 47 -> 47
      [] c = 98 -> 8
      [] c = 102 -> 12
      [] c = 110 -> 10
      [] c = 114 -> 13
      [] c = 116 -> 9
      [] OTHER -> -1

RECURSIVE PlainEnd(_, _)
\* The first position from i on that holds a ", a \ or a control character,
\* or is past the end.
PlainEnd(s, i) ==
    IF i <= Len(s) /\ s[i] >= 32 /\ s[i] # DQ /\ s[i] # BS
    THEN PlainEnd(s, i + 1) ELSE i

RECURSIVE ScanString(_, _, _)
\* The text of a JSON string whose opening " is before position i.  A
\* control character must be escaped; an escaped surrogate pair is one
\* character.
ScanString(s, i, acc) ==
    LET j == PlainEnd(s, i)
        chunk == acc \o SubSeq(s, i, j - 1)
        u == Hex4(s, j + 2)
        low == IF At(s, j + 6) = BS /\ At(s, j + 7) = 117 THEN Hex4(s, j + 8) ELSE -1
    IN  IF j > Len(s) THEN Fail
        ELSE IF s[j] = DQ THEN Got(JStr(chunk), j + 1)
        ELSE IF s[j] # BS THEN Fail
        ELSE IF At(s, j + 1) = 117 THEN
            IF u < 0 THEN Fail
            ELSE IF u \in 55296 .. 56319 /\ low \in 56320 .. 57343
            THEN ScanString(s, j + 12,
                     Append(chunk, 65536 + (u - 55296) * 1024 + (low - 56320)))
            ELSE ScanString(s, j + 6, Append(chunk, u))
        ELSE IF Unescape(At(s, j + 1)) >= 0
        THEN ScanString(s, j + 2, Append(chunk, Unescape(s[j + 1])))
        ELSE Fail

RECURSIVE DigitsEnd(_, _)
\* The position after the run of digits that starts at i.
DigitsEnd(s, i) == IF At(s, i) \in Digits THEN DigitsEnd(s, i + 1) ELSE i

\* ---------------------------------------------------------------- floats
\* float(literal) and repr(float), computed exactly.  A natural number is
\* the sequence of its base-1000 digits, the lowest first, without zeros at
\* the high end; zero is the empty sequence.
Base == 1000

\* The sequence f, each of its places worked out once.
Tuple(f) == SubSeq(f, 1, Len(f))

Limb(a, i) == IF i \in DOMAIN a THEN a[i] ELSE 0

BigTrim(a) ==
    SubSeq(a, 1, CHOOSE n \in 0 .. Len(a) :
                     /\ n = 0 \/ a[n] # 0
                     /\ \A j \in n + 1 .. Len(a) : a[j] = 0)

\* The places of v, each of them below 2^31, spread out and carried once.
\* Spread out, a place keeps its own three digits and takes the digits
\* above them of the three places under it, 2999 at most; carried, it keeps
\* what it holds below Base and takes what the place under it holds above.
Carry(v) ==
    LET SpreadAt(i) ==
            (Limb(v, i) % Base) + ((Limb(v, i - 1) \div Base) % Base)
            + ((Limb(v, i - 2) \div (Base * Base)) % Base)
            + (Limb(v, i - 3) \div (Base * Base * Base))
    IN  Tuple([i \in 1 .. Len(v) + 4 |->
                  (SpreadAt(i) % Base) + (SpreadAt(i - 1) \div Base)])

\* The carries left when no place holds more than 2 * Base - 2: a place
\* takes one when, of the places under it, the nearest that does not hold
\* Base - 1 holds more.
Ripple(v) ==
    IF \A i \in DOMAIN v : v[i] < Base THEN v
    ELSE Tuple([i \in 1 .. Len(v) + 1 |->
                   (Limb(v, i)
                    + (IF \E j \in 1 .. i - 1 :
                             /\ v[j] >= Base
                             /\ \A n \in j + 1 .. i - 1 : v[n] = Base - 1
                       THEN 1 ELSE 0)) % Base])

\* The number whose places hold v, each of them below 2^31.
Normal(v) == BigTrim(Ripple(Carry(v)))

BigLess(a, b) ==
    \/ Len(a) < Len(b)
    \/ /\ Len(a) = Len(b)
       /\ \E i \in DOMAIN a :
             a[i] < b[i] /\ \A j \in i + 1 .. Len(a) : a[j] = b[j]

\* -1, 0 or 1 as a is below, equal to or above b.
BigCmp(a, b) == IF a = b THEN 0 ELSE IF BigLess(a, b) THEN -1 ELSE 1

BigAdd(a, b) ==
    The({BigTrim(Ripple([i \in 1 .. (IF Len(r[1]) < Len(r[2]) THEN Len(r[2])
                                     ELSE Len(r[1])) |->
                            Limb(r[1], i) + Limb(r[2], i)])) : r \in {<<a, b>>}})

\* a - b, for a not below b: a place gives one when, of the places under
\* it, the nearest where a and b differ has a below b.
BigSub(a, b) ==
    BigTrim(Tuple([i \in DOMAIN a |->
        (a[i] - Limb(b, i) + Base
         - (IF \E j \in 1 .. i - 1 :
                  /\ a[j] < Limb(b, j)
                  /\ \A n \in j + 1 .. i - 1 : a[n] = Limb(b, n)
            THEN 1 ELSE 0)) % Base]))

\* a * c, for c up to 2^21.
BigMulSmall(a, c) == The({Normal([i \in DOMAIN r |-> r[i] * c]) : r \in {a}})

\* a * Base^j
BigShift(a, j) == IF a = <<>> THEN <<>> ELSE [i \in 1 .. j |-> 0] \o a

RECURSIVE ColumnSum(_, _, _, _, _)
\* The sum of a[i] * b[k + 1 - i] for i in lo .. hi.
ColumnSum(a, b, k, lo, hi) ==
    LET Term(i) == IF i > hi THEN 0 ELSE a[i] * b[k + 1 - i] IN
    IF hi - lo < 8
    THEN Term(lo) + Term(lo + 1) + Term(lo + 2) + Term(lo + 3)
         + Term(lo + 4) + Term(lo + 5) + Term(lo + 6) + Term(lo + 7)
    ELSE ColumnSum(a, b, k, lo, (lo + hi) \div 2)
         + ColumnSum(a, b, k, (lo + hi) \div 2 + 1, hi)

\* a * b, for numbers of up to 2000 places.
BigMul(a, b) ==
    The({Normal([k \in 1 .. Len(r[1]) + Len(r[2]) - 1 |->
                    ColumnSum(r[1], r[2], k,
                              IF k > Len(r[2]) THEN k + 1 - Len(r[2]) ELSE 1,
                              IF k < Len(r[1]) THEN k ELSE Len(r[1]))]) :
           r \in {<<a, b>>}})

\* 10^j
BigPow10(j) == BigShift(<<10 ^ (j % 3)>>, j \div 3)

RECURSIVE BigPow2(_)
\* 2^j, by fourth powers.
BigPow2(j) ==
    LET FourthPower(a, c) ==
            The({BigMulSmall(BigMul(r, r), c) : r \in {BigMul(a, a)}})
    IN  IF j <= 20 THEN Normal(<<2 ^ j>>)
        ELSE FourthPower(BigPow2(j \div 4), 2 ^ (j % 4))

\* The quotient of a by b, for a quotient below Base: the two highest
\* places of b and the places of a over them give it to within two.
BigDigit(a, b) ==
    LET \* the three places of c from place n up, as one number
        Top(c, n) == Limb(c, n) + Base * Limb(c, n + 1) + Base * Base * Limb(c, n + 2)
        low == Top(a, Len(b) - 1) \div (Top(b, Len(b) - 1) + 1)
    IN  The({CHOOSE t \in low .. low + 2 : ~BigLess(a, p[t]) /\ BigLess(a, p[t + 1]) :
               p \in {[t \in low .. low + 3 |-> BigMulSmall(b, t)]}})

RECURSIVE BigDivMod(_, _, _)
\* Quotient and remainder of a by b, for a quotient below Base^n and n a
\* power of two: the high half of the quotient divides a by b * Base^(n/2),
\* the low half divides what that leaves by b.
BigDivMod(a, b, n) ==
    IF n = 1
    THEN The({[q |-> IF t = 0 THEN <<>> ELSE <<t>>,
               r |-> BigSub(a, BigMulSmall(b, t))] : t \in {BigDigit(a, b)}})
    ELSE The({The({[q |-> BigTrim([i \in 1 .. n \div 2 |-> Limb(low.q, i)] \o high.q),
                    r |-> low.r] :
                     low \in {BigDivMod(high.r, b, n \div 2)}}) :
                high \in {BigDivMod(a, BigShift(b, n \div 2), n \div 2)}})

\* The number written by the decimal digits ds, the highest first.
BigFromDigits(ds) ==
    LET d(p) == IF p >= 1 THEN ds[p] ELSE 0 IN
    BigTrim(Tuple([i \in 1 .. (Len(ds) + 2) \div 3 |->
                      d(Len(ds) - 3 * i + 3) + 10 * d(Len(ds) - 3 * i + 2)
                      + 100 * d(Len(ds) - 3 * i + 1)]))

\* ds without the zeros at its high end.
StripLeft(ds) ==
    SubSeq(ds, 1 + (CHOOSE n \in 0 .. Len(ds) :
                        /\ n = Len(ds) \/ ds[n + 1] # 0
                        /\ \A j \in 1 .. n : ds[j] = 0), Len(ds))

\* The decimal digits of a, the highest first; none for zero.
BigToDigits(a) ==
    StripLeft([p \in 1 .. 3 * Len(a) |->
                  (a[Len(a) - ((p - 1) \div 3)] \div (10 ^ (2 - ((p - 1) % 3)))) % 10])

\* j where above zero, else zero.
Over(j) == IF j > 0 THEN j ELSE 0

TwoTo52 == <<496, 370, 627, 599, 503, 4>>        \* 4503599627370496
TwoTo53 == <<992, 740, 254, 199, 7, 9>>          \* 9007199254740992

\* Quotient q and remainder r of num / den by 2^j, for a quotient below
\* 2^60, and the number by that it is the division by: den for the j below
\* zero, where num takes the power of two, and den * 2^j for the others.
Quotient(num, den, j) ==
    The({The({[q |-> x.q, r |-> x.r, by |-> IF j < 0 THEN den ELSE s] :
                x \in {BigDivMod(IF j < 0 THEN s ELSE num,
                                 IF j < 0 THEN den ELSE s, 8)}}) :
           s \in {BigMul(IF j < 0 THEN num ELSE den,
                         BigPow2(IF j < 0 THEN 0 - j ELSE j))}})

\* The double q * 2^k, or the one above it when the rest of the division,
\* against its half (-1 below, 0 at, 1 above), rounds up: ties go to the
\* even one.  k is -1074 at least, q below 2^53 and, for k above -1074, not
\* below 2^52.
Rounded(q, half, k) ==
    LET m == IF half > 0 \/ (half = 0 /\ Limb(q, 1) % 2 = 1)
             THEN BigAdd(q, <<1>>) ELSE q
    IN  IF m = <<>> THEN [kind |-> "zero"]
        ELSE IF m = TwoTo53 /\ k < 971
             THEN [kind |-> "finite", m |-> TwoTo52, k |-> k + 1]
        ELSE IF m = TwoTo53 \/ k > 971 THEN [kind |-> "inf"]
        ELSE [kind |-> "finite", m |-> m, k |-> k]

RECURSIVE RoundFrom(_, _, _, _)
\* num / den to the nearest double, k being the power of two of its last
\* bit or, when that is not sure, up to 7 below it: the quotient by 2^k
\* then has up to 7 bits over the 53, and the division is done again that
\* many powers higher.
RoundFrom(num, den, k, sure) ==
    LET Bits(j) == BigMulSmall(TwoTo52, 2 ^ j)               \* 2^(52 + j)
    IN  The({The({IF over = 0
                  THEN Rounded(x.q, BigCmp(BigMulSmall(x.r, 2), x.by), k)
                  ELSE RoundFrom(num, den, k + over, TRUE) :
                    over \in {IF sure THEN 0
                              ELSE CHOOSE j \in 0 .. 7 :
                                       /\ BigLess(x.q, Bits(j + 1))
                                       /\ j = 0 \/ ~BigLess(x.q, Bits(j))}}) :
               x \in {Quotient(num, den, k)}})

\* The double nearest to ds * 10^e, ties to the even one: m * 2^k with m
\* below 2^53 and k from -1074 on; ds has a digit other than 0 at each end.
RoundToDouble(ds, e) ==
    LET n == Len(ds) + e
        est == (((n - 1) * 33219) \div 10000) - 53
    IN  IF n > 309 THEN [kind |-> "inf"]
        ELSE IF n < -323 THEN [kind |-> "zero"]
        ELSE The({RoundFrom(r[1], r[2], IF est < -1074 THEN -1074 ELSE est, FALSE) :
                    r \in {<<BigMul(BigFromDigits(ds), BigPow10(Over(e))),
                             BigPow10(Over(0 - e))>>}})

\* -1, 0 or 1 as t * 10^x is below, equal to or above num / den: the
\* power of ten goes to t * den when x is above zero, else to num.
ScaledCmp(t, x, num, den) ==
    The({The({IF x < 0 THEN BigCmp(td, sc) ELSE BigCmp(sc, num) :
                sc \in {BigMul(IF x < 0 THEN num ELSE td,
                               BigPow10(IF x < 0 THEN 0 - x ELSE x))}}) :
           td \in {BigMul(t, den)}})

\* The numbers that float() reads as m * 2^k, over the denominator den:
\* from half way down to the double below to half way up to the double
\* above, the ends among them when m is even.  They are counted in quarters
\* of 2^k: the double is 4 * m of them, the one above it 4 more, the one
\* below it 4 less, or 2 less when m is the least significand.
Interval(m, k) ==
    The({The({[mid |-> at[0], low |-> at[-1], high |-> at[1],
               den |-> IF k < 2 THEN pow ELSE <<1>>,
               closed |-> m[1] % 2 = 0] :
                at \in {[w \in {-1, 0, 1} |->
                           BigMul(CASE w = 0 -> BigMulSmall(m, 4)
                                    [] w = 1 -> BigAdd(BigMulSmall(m, 4), <<2>>)
                                    [] w = -1 ->
                                         BigSub(BigMulSmall(m, 4),
                                                IF m = TwoTo52 /\ k > -1074
                                                THEN <<1>> ELSE <<2>>),
                                  IF k > 2 THEN pow ELSE <<1>>)]}}) :
           pow \in {BigPow2(IF k < 2 THEN 2 - k ELSE k - 2)}})

\* float() reads t * 10^x as the double of the interval iv.
Reads(t, x, iv) ==
    The({IF iv.closed THEN c[1] >= 0 /\ c[2] <= 0 ELSE c[1] > 0 /\ c[2] < 0 :
           c \in {[w \in {1, 2} |->
                     ScaledCmp(t, x, IF w = 1 THEN iv.low ELSE iv.high, iv.den)]}})

\* The first p digits of tq, as they stand or with one added at the last,
\* are read as the double of iv, which has nd digits before the point.
Fits(tq, nd, iv, p) ==
    The({\E u \in {t, BigAdd(t, <<1>>)} : Reads(u, nd - p, iv) :
           t \in {BigFromDigits(SubSeq(tq, 1, p))}})

RECURSIVE Shortest(_, _, _, _, _)
\* The least p in lo .. hi that fits, hi being one that does: with one that
\* fits every longer one fits.
Shortest(tq, nd, iv, lo, hi) ==
    IF lo = hi THEN lo
    ELSE IF Fits(tq, nd, iv, (lo + hi) \div 2)
         THEN Shortest(tq, nd, iv, lo, (lo + hi) \div 2)
         ELSE Shortest(tq, nd, iv, (lo + hi) \div 2 + 1, hi)

\* Of the first p digits of tq as they stand and with one added at the
\* last, the one that is read as the double of iv and is the nearer to it,
\* a tie going to the even digit: its digits d1 d2 ... and the power decpt
\* of 0.d1d2... * 10^decpt.
Nearest(tq, nd, iv, p) ==
    The({The({The({[digits |-> BigTrim(t), decpt |-> nd + (Len(t) - p)] :
                     t \in {BigToDigits(IF lower THEN c[1] ELSE c[2])}}) :
                lower \in {IF ~Reads(c[2], nd - p, iv) THEN TRUE
                           ELSE IF ~Reads(c[1], nd - p, iv) THEN FALSE
                           ELSE \* the middle of the two against the double
                                \E side \in {ScaledCmp(BigAdd(BigMulSmall(c[1], 2), <<1>>),
                                                       nd - p,
                                                       BigMulSmall(iv.mid, 2), iv.den)} :
                                    side > 0 \/ (side = 0 /\ tq[p] % 2 = 0)}}) :
           c \in {[w \in {1, 2} |->
                     BigAdd(BigFromDigits(SubSeq(tq, 1, p)),
                            IF w = 2 THEN <<1>> ELSE <<>>)]}})

\* The shortest decimal that float() reads as m * 2^k and, among the
\* shortest, the nearest to it.
ShortestDigits(m, k) ==
    LET x0 == 3 * (Len(m) - 1) + ((k * 30103) \div 100000) - 18
        \* the 19 to 22 digits at the high end of the double, which has
        \* its first digit at 10^x0 times these
        LeadingDigits(iv) ==
            The({BigToDigits(BigDivMod(r[1], r[2], 8).q) :
                   r \in {<<BigMul(iv.mid, BigPow10(Over(0 - x0))),
                            BigMul(iv.den, BigPow10(Over(x0)))>>}})
    IN
    The({The({The({Nearest(tq, x0 + Len(tq), iv, p) :
                     p \in {Shortest(tq, x0 + Len(tq), iv, 1, 17)}}) :
                tq \in {LeadingDigits(iv)}}) :
           iv \in {Interval(m, k)}})

\* float_repr_style 'short': the digits with the point, and with an
\* exponent of two digits or more when decpt is above 16 or below -3.
FormatFloat(ds, decpt) ==
    LET DigitChars(dd) == [i \in DOMAIN dd |-> 48 + dd[i]]
        Zeros(j) == [i \in 1 .. j |-> 48]
    IN
    IF decpt > 16 \/ decpt < -3
    THEN <<48 + ds[1]>>
         \o (IF Len(ds) > 1 THEN <<46>> \o DigitChars(Tail(ds)) ELSE <<>>)
         \o <<101, IF decpt < 1 THEN 45 ELSE 43>>
         \o (IF decpt < 1 THEN Zeros(IF decpt > -9 THEN 1 ELSE 0) \o Decimal(1 - decpt)
             ELSE Zeros(IF decpt < 11 THEN 1 ELSE 0) \o Decimal(decpt - 1))
    ELSE IF decpt <= 0 THEN <<48, 46>> \o Zeros(0 - decpt) \o DigitChars(ds)
    ELSE IF decpt >= Len(ds)
         THEN DigitChars(ds) \o Zeros(decpt - Len(ds)) \o <<46, 48>>
    ELSE DigitChars(SubSeq(ds, 1, decpt)) \o <<46>>
         \o DigitChars(SubSeq(ds, decpt + 1, Len(ds)))

\* repr(float(literal)) for the literal -?ds e exp: its sign, its decimal
\* digits and its power of ten.
FloatRepr(neg, ds, exp) ==
    LET left == StripLeft(ds)
        sig == BigTrim(left)
    IN  (IF neg THEN <<45>> ELSE <<>>)
        \o The({IF d.kind = "zero" THEN <<48, 46, 48>>             \* 0.0
                ELSE IF d.kind = "inf" THEN <<105, 110, 102>>     \* inf
                ELSE The({FormatFloat(r.digits, r.decpt) :
                            r \in {ShortestDigits(d.m, d.k)}}) :
                  d \in {IF sig = <<>> THEN [kind |-> "zero"]
                         ELSE RoundToDouble(sig, exp + (Len(left) - Len(sig)))}})

\* repr(float(literal)) for the literal of ParseNumber: the int part at
\* d .. e - 1, the fraction after the point at e, the exponent at x .. g - 1
\* after the e at f.  An exponent of seven digits or more counts as 999999.
FloatLiteral(s, neg, d, e, f, x, g) ==
    LET \* the digits written at positions i .. j - 1
        DigitsAt(i, j) == [p \in 1 .. j - i |-> s[i + p - 1] - 48]
        frac == IF f > e THEN DigitsAt(e + 1, f) ELSE <<>>
        xd == IF g > f THEN StripLeft(DigitsAt(x, g)) ELSE <<>>
        xv == IF Len(xd) > 6 THEN 999999
              ELSE Limb(BigFromDigits(xd), 1) + Base * Limb(BigFromDigits(xd), 2)
        exp == IF At(s, f + 1) = 45 THEN 0 - xv ELSE xv
    IN  FloatRepr(neg, DigitsAt(d, e) \o frac, exp - Len(frac))

\* ------------------------------------------------- json.loads, numbers
\* int() takes no more digits than sys.int_info.default_max_str_digits.
MaxStrDigits == 4300

\* The number at position i: -?(0|[1-9]\d*)(\.\d+)?([eE][-+]?\d+)?, an int
\* without fraction and exponent, else a float.  int() of too many digits
\* raises, and int() of -0 is 0.
ParseNumber(s, i) ==
    The({The({The({The({The({
        IF e = d THEN Fail
        ELSE IF g > e THEN Got(JFloat(FloatLiteral(s, d > i, d, e, f, x, g)), g)
        ELSE IF e - d > MaxStrDigits THEN Fail
        ELSE Got(JNum(IF SubSeq(s, i, e - 1) = <<45, 48>> THEN <<48>>
                      ELSE SubSeq(s, i, e - 1)), e)
        \* the end of the exponent's digits, or f without them
        : g \in {IF x > f /\ At(s, x) \in Digits THEN DigitsEnd(s, x) ELSE f}})
        \* the place of the exponent's digits, or f without an e
        : x \in {IF At(s, f) \in {101, 69}
                 THEN (IF At(s, f + 1) \in {43, 45} THEN f + 2 ELSE f + 1)
                 ELSE f}})
        \* the end of the fraction, or e without one
        : f \in {IF At(s, e) = 46 /\ At(s, e + 1) \in Digits
                 THEN DigitsEnd(s, e + 1) ELSE e}})
        \* the end of the int part
        : e \in {IF At(s, d) = 48 THEN d + 1 ELSE DigitsEnd(s, d)}})
        \* the first digit
        : d \in {IF At(s, i) = 45 THEN i + 1 ELSE i}})

\* dict[key] = value: a key written twice keeps its place and its last value.
PutMember(kv, k, v) ==
    IF \E i \in DOMAIN kv : kv[i][1] = k
    THEN [i \in DOMAIN kv |-> IF kv[i][1] = k THEN <<k, v>> ELSE kv[i]]
    ELSE Append(kv, <<k, v>>)

RECURSIVE ParseValue(_, _), ParseItems(_, _, _), ParseMembers(_, _, _),
          ParseMember(_, _, _, _)
\* The JSON value starting at position i of s.
ParseValue(s, i) ==
    IF i > Len(s) THEN Fail
    ELSE CASE s[i] = DQ -> ScanString(s, i + 1, <<>>)
           [] s[i] = 91 ->                                       \* [
                IF At(s, SkipWs(s, i + 1)) = 93
                THEN Got(JList(<<>>), SkipWs(s, i + 1) + 1)
                ELSE ParseItems(s, SkipWs(s, i + 1), <<>>)
           [] s[i] = 123 ->                                      \* {
                IF At(s, SkipWs(s, i + 1)) = 125
                THEN Got(JObj(<<>>), SkipWs(s, i + 1) + 1)
                ELSE ParseMembers(s, SkipWs(s, i + 1), <<>>)
           [] MatchAt(s, i, <<110, 117, 108, 108>>) -> Got(JNull, i + 4)
           [] MatchAt(s, i, <<116, 114, 117, 101>>) -> Got(JBool(TRUE), i + 4)
           [] MatchAt(s, i, <<102, 97, 108, 115, 101>>) -> Got(JBool(FALSE), i + 5)
           [] At(s, i) \in Digits \/ (At(s, i) = 45 /\ At(s, i + 1) \in Digits) ->
                ParseNumber(s, i)
           [] MatchAt(s, i, <<78, 97, 78>>) ->                    \* NaN
                Got(JFloat(<<110, 97, 110>>), i + 3)              \* nan
           [] MatchAt(s, i, <<73, 110, 102, 105, 110, 105, 116, 121>>) ->
                Got(JFloat(<<105, 110, 102>>), i + 8)             \* inf
           [] MatchAt(s, i, <<45, 73, 110, 102, 105, 110, 105, 116, 121>>) ->
                Got(JFloat(<<45, 105, 110, 102>>), i + 9)         \* -inf
           [] OTHER -> Fail

\* The items of an array, the first one at position i.
ParseItems(s, i, acc) ==
    The({ IF ~r.ok THEN Fail
          ELSE IF At(s, SkipWs(s, r.next)) = 93
               THEN Got(JList(Append(acc, r.v)), SkipWs(s, r.next) + 1)
          ELSE IF At(s, SkipWs(s, r.next)) = 44
               THEN ParseItems(s, SkipWs(s, SkipWs(s, r.next) + 1), Append(acc, r.v))
          ELSE Fail
          : r \in {ParseValue(s, i)} })

\* The value of the member whose key k ends before position c.
ParseMember(s, c, k, acc) ==
    IF At(s, c) # 58 THEN Fail
    ELSE The({ IF ~r.ok THEN Fail
               ELSE IF At(s, SkipWs(s, r.next)) = 125
                    THEN Got(JObj(PutMember(acc, k, r.v)), SkipWs(s, r.next) + 1)
               ELSE IF At(s, SkipWs(s, r.next)) = 44
                    THEN ParseMembers(s, SkipWs(s, SkipWs(s, r.next) + 1),
                                      PutMember(acc, k, r.v))
               ELSE Fail
               : r \in {ParseValue(s, SkipWs(s, c + 1))} })

\* The members of an object, the first key at position i.
ParseMembers(s, i, acc) ==
    IF At(s, i) # DQ THEN Fail
    ELSE The({ IF ~k.ok THEN Fail ELSE ParseMember(s, SkipWs(s, k.next), k.v.s, acc)
               : k \in {ScanString(s, i + 1, <<>>)} })

\* json.loads(s): one value, whitespace around it and nothing else, or it
\* raises.
json_loads(s) ==
    The({ IF r.ok /\ SkipWs(s, r.next) = Len(s) + 1 THEN [ok |-> TRUE, v |-> r.v]
          ELSE Fail
          : r \in {ParseValue(s, SkipWs(s, 1))} })

\* ------------------------------------------------- the drinks table
\* A row: title (a JSON string, or null) and recipe (the column's text).
Row(title, recipe) == [title |-> title, recipe |-> recipe]

Ids == 1 .. MaxDrinks

\* The ids of the table t in ascending order, from id i on.
RECURSIVE IdsFrom(_, _)
IdsFrom(t, i) ==
    IF i > MaxDrinks THEN <<>>
    ELSE (IF i \in DOMAIN t THEN <<i>> ELSE <<>>) \o IdsFrom(t, i + 1)

\* Drink.query.all(): every row, by id.
query_all(t) == IdsFrom(t, 1)

\* Drink.query.get(id): a row of the table, or None.
query_get(t, id) == id \in DOMAIN t

\* drink.insert(): add and commit, under the next id.
insert(t, id, row) == [i \in DOMAIN t \cup {id} |-> IF i = id THEN row ELSE t[i]]

\* drink.update(): commit the assigned title and recipe.
update(t, id, row) == [t EXCEPT ![id] = row]

\* drink.delete(): delete and commit.
delete(t, id) == [i \in DOMAIN t \ {id} |-> t[i]]

\* ------------------------------------------------------- projections
\* The keys of an ingredient.
ColorKey == <<99, 111, 108, 111, 114>>          \* color
NameKey == <<110, 97, 109, 101>>                \* name
PartsKey == <<112, 97, 114, 116, 115>>          \* parts
HasKey(o, k) == o.t = "obj" /\ \E i \in DOMAIN o.kv : o.kv[i][1] = k
Lookup(o, k) == o.kv[CHOOSE i \in DOMAIN o.kv : o.kv[i][1] = k][2]

Projection(id, title, recipe) == [id |-> id, title |-> title, recipe |-> recipe]
Raised == [ok |-> FALSE]
Returned(v) == [ok |-> TRUE, v |-> v]

\* drink.long(): id, title and the deserialized recipe; raises when the
\* stored text is not JSON.
long(t, id) ==
    The({ IF r.ok THEN Returned(Projection(id, t[id].title, r.v)) ELSE Raised
          : r \in {json_loads(t[id].recipe)} })

\* One ingredient of the short recipe: its color and parts, nothing else.
short_entry(e) ==
    JObj(<< <<ColorKey, Lookup(e, ColorKey)>>,
            <<PartsKey, Lookup(e, PartsKey)>> >>)

\* drink.short(): id, title and color/parts of each ingredient; raises when
\* the text is not JSON or an element has no color or no parts to index.
short(t, id) ==
    The({
        IF ~r.ok THEN Raised
        ELSE CASE r.v.t = "list" ->
                    IF \A i \in DOMAIN r.v.xs :
                           HasKey(r.v.xs[i], ColorKey) /\ HasKey(r.v.xs[i], PartsKey)
                    THEN Returned(Projection(id, t[id].title,
                            JList([i \in DOMAIN r.v.xs |-> short_entry(r.v.xs[i])])))
                    ELSE Raised
               [] r.v.t = "obj" ->
                    \* iterating a dict yields its keys; a key cannot be indexed
                    IF r.v.kv = <<>> THEN Returned(Projection(id, t[id].title, JList(<<>>)))
                    ELSE Raised
               [] r.v.t = "str" ->
                    IF r.v.s = <<>> THEN Returned(Projection(id, t[id].title, JList(<<>>)))
                    ELSE Raised
               [] OTHER -> Raised
          : r \in {json_loads(t[id].recipe)} })

\* -------------------------------------------------------- responses
NoResponse == [status |-> 0, success |-> FALSE, kind |-> "none",
               drinks |-> <<>>, delete |-> 0]
\* jsonify({'success': True, 'drinks': [...]})
OkDrinks(ds) == [status |-> 200, success |-> TRUE, kind |-> "drinks",
                 drinks |-> ds, delete |-> 0]
\* jsonify({'success': True, 'delete': drink_id})
OkDelete(id) == [status |-> 200, success |-> TRUE, kind |-> "delete",
                 drinks |-> <<>>, delete |-> id]
\* The error handlers' envelope: success False, error = the status.
ErrorEnvelope(code) == [status |-> code, success |-> FALSE, kind |-> "error",
                        drinks |-> <<>>, delete |-> 0]

Outcome(t, r) == [drinks |-> t, resp |-> r]

\* ----------------------------------------------------- token verifier
\* What the Authorization header of a request amounts to: no header, a
\* header that is not "Bearer <token>", a token the verification rejects
\* (signature, issuer, audience, expiry), a verified token without a
\* permissions claim, or a verified token with its permissions.
Permissions == {"get:drinks-detail", "post:drinks", "patch:drinks", "delete:drinks"}
NoToken(kind) == [kind |-> kind, perms |-> {}]
ValidToken(perms) == [kind |-> "valid", perms |-> perms]
Tokens ==
    {NoToken(k) : k \in {"missing", "malformed", "invalid", "noclaim"}}
    \cup {ValidToken({p}) : p \in Permissions}
\* Callers holding every permission, and GET /drinks without a header.
Staff == {ValidToken(Permissions)}
Callers == {NoToken("missing")} \cup Staff

\* requires_auth(permission): 0 when the wrapped handler may run, else the
\* status of the AuthError raised before it.
requires_auth(token, permission) ==
    CASE token.kind = "missing"   -> 401
      [] token.kind = "malformed" -> 401
      [] token.kind = "invalid"   -> 401
      [] token.kind = "noclaim"   -> 401
      [] permission \notin token.perms -> 403
      [] OTHER -> 0

\* @app.errorhandler(AuthError): the envelope with the error's own status.
auth_error(code) == ErrorEnvelope(code)

GetDetailPermission == "get:drinks-detail"
PostPermission == "post:drinks"
\* The PATCH route decorated with the POST route's permission.
PatchPermissionOfPost == "post:drinks"
PatchPermission == "patch:drinks"
DeletePermission == "delete:drinks"

\* The token checked only after the body has run.
ProtectedLate(token, permission, t, outcome) ==
    LET a == requires_auth(token, permission) IN
    IF a # 0 THEN Outcome(outcome.drinks, auth_error(a)) ELSE outcome

\* A decorated route: the decorator answers before the body runs.
Protected(token, permission, t, outcome) ==
    LET a == requires_auth(token, permission) IN
    IF a # 0 THEN Outcome(t, auth_error(a)) ELSE outcome

\* ------------------------------------------------------ request bodies
\* The texts the requests carry.
Water == JStr(<<87, 97, 116, 101, 114>>)   \* Water
Cocoa == JStr(<<67, 111, 99, 111, 97>>)   \* Cocoa
Blue == JStr(<<98, 108, 117, 101>>)   \* blue
WaterName == JStr(<<119, 97, 116, 101, 114>>)   \* water
Brown == JStr(<<98, 114, 111, 119, 110>>)   \* brown
BakersName == JStr(<<98, 97, 107, 101, 114, 39, 115>>)   \* baker's
Ingredient(color, name, parts) ==
    JObj(<< <<ColorKey, color>>, <<NameKey, name>>, <<PartsKey, parts>> >>)

Titles == {Water, Cocoa}
\* [{"color":"blue","name":"water","parts":1}]
WaterRecipe == JList(<<Ingredient(Blue, WaterName, JNum(<<49>>))>>)
\* [{"color":"brown","parts":2}]: an ingredient without a name
NamelessRecipe ==
    JList(<<JObj(<< <<ColorKey, Brown>>, <<PartsKey, JNum(<<50>>)>> >>)>>)
\* [{"color":"brown","name":"baker's","parts":1}]: a name holding a '
QuoteRecipe ==
    JList(<<Ingredient(Brown, BakersName, JNum(<<49>>))>>)
\* {"color":"blue","name":"water","parts":1}: an object, not a sequence
ObjectRecipe == Ingredient(Blue, WaterName, JNum(<<49>>))
Recipes == {WaterRecipe, NamelessRecipe}
OddRecipes == {QuoteRecipe, ObjectRecipe}

\* A body request.get_json() cannot parse (it raises), and the JSON objects
\* with the keys title and recipe, each present or not.
MalformedBody == [json |-> FALSE, title |-> Absent, recipe |-> Absent]
JsonBody(title, recipe) == [json |-> TRUE, title |-> title, recipe |-> recipe]
NoBody == [json |-> FALSE, title |-> Absent, recipe |-> Absent]
PatchBodies ==
    {MalformedBody, JsonBody(Absent, Absent)}
    \cup {JsonBody(ti, Absent) : ti \in Titles}
    \cup {JsonBody(Absent, re) : re \in Recipes}
    \cup {JsonBody(Water, WaterRecipe), JsonBody(Cocoa, NamelessRecipe)}
\* The title column's constraints belong to the model class; the bodies
\* drawn for POST all carry a title.
PostBodies ==
    {MalformedBody}
    \cup {JsonBody(ti, re) : ti \in Titles, re \in Recipes \cup {Absent}}
\* The bodies sent with every kind of token.
FewPostBodies ==
    {MalformedBody, JsonBody(Water, WaterRecipe), JsonBody(Cocoa, Absent)}
FewPatchBodies == {MalformedBody, JsonBody(Cocoa, NamelessRecipe)}
\* The bodies whose recipe is no plain sequence of ingredients.
OddPostBodies == {JsonBody(Water, re) : re \in OddRecipes \cup {WaterRecipe}}
OddPatchBodies == {JsonBody(Absent, re) : re \in OddRecipes} \cup {JsonBody(Cocoa, Absent)}

\* res.get(key, default)
get(v, default) == IF v = Absent THEN default ELSE v

\* ------------------------------------------------------------ handlers
\* get_public_short_drinks
get_public_short_drinks(t) ==
    LET ids == query_all(t)
        shorts == [i \in DOMAIN ids |-> short(t, ids[i])]
    IN  IF \A i \in DOMAIN ids : shorts[i].ok
        THEN Outcome(t, OkDrinks([i \in DOMAIN ids |-> shorts[i].v]))
        ELSE Outcome(t, ErrorEnvelope(500))

\* The detail route answering with the short projection.
get_private_short_drinks_short(t) == get_public_short_drinks(t)

\* get_private_short_drinks: drinks is bound when long() raises, so the
\* except branch aborts with 500.
get_private_short_drinks(t) ==
    LET ids == query_all(t)
        longs == [i \in DOMAIN ids |-> long(t, ids[i])]
    IN  IF \A i \in DOMAIN ids : longs[i].ok
        THEN Outcome(t, OkDrinks([i \in DOMAIN ids |-> longs[i].v]))
        ELSE Outcome(t, ErrorEnvelope(500))

\* post_private_long_drink: insert() has committed when long() runs, so the
\* rollback of the except branch finds nothing to undo.
post_private_long_drink(t, id, body) ==
    IF ~body.json THEN Outcome(t, ErrorEnvelope(500))
    ELSE LET title == get(body.title, JNull)
             recipe == NormalizeRecipe(get(body.recipe, JNull))
             t2 == insert(t, id, Row(title, recipe))
             l == long(t2, id)
         IN  IF l.ok THEN Outcome(t2, OkDrinks(<<l.v>>))
             ELSE Outcome(t2, ErrorEnvelope(500))

\* PATCH reading the recipe as POST does, with None for a missing key.
patch_private_long_drink_no_default(t, id, body) ==
    IF ~body.json THEN Outcome(t, ErrorEnvelope(500))
    ELSE IF ~query_get(t, id) THEN Outcome(t, ErrorEnvelope(404))
    ELSE LET title == get(body.title, t[id].title)
             recipe == NormalizeRecipe(get(body.recipe, JNull))
             t2 == update(t, id, Row(title, recipe))
             l == long(t2, id)
         IN  IF l.ok THEN Outcome(t2, OkDrinks(<<l.v>>))
             ELSE Outcome(t2, ErrorEnvelope(500))

\* patch_private_long_drink: get_json() raising leaves drink unbound, and
\* the except branch's own test of drink raises (500); drink None raises at
\* drink.title (404); update() has committed when long() runs.
patch_private_long_drink(t, id, body) ==
    IF ~body.json THEN Outcome(t, ErrorEnvelope(500))
    ELSE IF ~query_get(t, id) THEN Outcome(t, ErrorEnvelope(404))
    ELSE LET title == get(body.title, t[id].title)
             recipe == NormalizeRecipe(get(body.recipe, JStr(t[id].recipe)))
             t2 == update(t, id, Row(title, recipe))
             l == long(t2, id)
         IN  IF l.ok THEN Outcome(t2, OkDrinks(<<l.v>>))
             ELSE Outcome(t2, ErrorEnvelope(500))

\* DELETE answering without the call of drink.delete().
delete_private_drink_keeps(t, id) ==
    IF ~query_get(t, id) THEN Outcome(t, ErrorEnvelope(404))
    ELSE Outcome(t, OkDelete(id))

\* delete_private_drink: drink None raises at drink.delete() (404).
delete_private_drink(t, id) ==
    IF ~query_get(t, id) THEN Outcome(t, ErrorEnvelope(404))
    ELSE Outcome(delete(t, id), OkDelete(id))

\* --------------------------------------------------------------- state
VARIABLES
    drinks,   \* the table: id -> row
    nextId,   \* the id the next inserted row gets
    req,      \* the request answered last
    resp,     \* its response
    pc,       \* per process: where its request stands
    session,  \* per process: its request and its session's copy of the row
    answer,   \* per process: the response of its request
    commits   \* the workers whose PATCH has committed, in commit order

vars == <<drinks, nextId, req, resp, pc, session, answer, commits>>
workerVars == <<pc, session, answer, commits>>

\* The processes that serve requests in parallel: one runs POST, the
\* workers run PATCH.
Poster == 0
Workers == {1, 2}
Processes == {Poster} \cup Workers
NoRow == Row(JNull, <<>>)
NoSession == [id |-> 0, body |-> NoBody, found |-> FALSE,
              loaded |-> NoRow, assigned |-> NoRow]

Request(route, token, id, body) ==
    [route |-> route, token |-> token, id |-> id, body |-> body]

\* db_drop_and_create_all(): an empty table.
Init ==
    /\ drinks = <<>>
    /\ nextId = 1
    /\ req = Request("none", NoToken("missing"), 0, NoBody)
    /\ resp = NoResponse
    /\ pc = [w \in Processes |-> "idle"]
    /\ session = [w \in Processes |-> NoSession]
    /\ answer = [w \in Processes |-> NoResponse]
    /\ commits = <<>>

Answer(r, outcome) ==
    \E o \in {outcome} :
        /\ req' = r
        /\ resp' = o.resp
        /\ drinks' = o.drinks
        /\ UNCHANGED workerVars

\* GET /drinks
GetDrinksBy(tokens) ==
    \E o \in {get_public_short_drinks(drinks)} :
        \E token \in tokens :
            /\ Answer(Request("GET /drinks", token, 0, NoBody), o)
            /\ UNCHANGED nextId

\* GET /drinks-detail
GetDrinksDetailBy(tokens) ==
    \E token \in tokens :
        /\ Answer(Request("GET /drinks-detail", token, 0, NoBody),
                  Protected(token, GetDetailPermission, drinks, get_private_short_drinks(drinks)))
        /\ UNCHANGED nextId

\* POST /drinks
PostDrinkBy(tokens, bodies, cap) ==
    \E token \in tokens, body \in bodies :
        LET o == Protected(token, PostPermission, drinks,
                           post_private_long_drink(drinks, nextId, body)) IN
        /\ nextId <= cap \/ requires_auth(token, PostPermission) # 0 \/ ~body.json
        /\ Answer(Request("POST /drinks", token, 0, body), o)
        /\ nextId' = IF nextId \in DOMAIN o.drinks THEN nextId + 1 ELSE nextId

\* PATCH /drinks/<id>
PatchDrinkBy(tokens, bodies) ==
    \E token \in tokens, id \in Ids, body \in bodies :
        /\ Answer(Request("PATCH /drinks", token, id, body),
                  Protected(token, PatchPermission, drinks, patch_private_long_drink(drinks, id, body)))
        /\ UNCHANGED nextId

\* DELETE /drinks/<id>
DeleteDrinkBy(tokens) ==
    \E token \in tokens, id \in Ids :
        /\ Answer(Request("DELETE /drinks", token, id, NoBody),
                  Protected(token, DeletePermission, drinks, delete_private_drink(drinks, id)))
        /\ UNCHANGED nextId

\* Requests with every kind of token.
GetDrinks == GetDrinksBy(Tokens)
GetDrinksDetail == GetDrinksDetailBy(Tokens)
PostDrink == PostDrinkBy(Tokens, FewPostBodies, MaxDrinks)
PatchDrink == PatchDrinkBy(Tokens, FewPatchBodies)
DeleteDrink == DeleteDrinkBy(Tokens)

Next == GetDrinks \/ GetDrinksDetail \/ PostDrink \/ PatchDrink \/ DeleteDrink

Spec == Init /\ [][Next]_vars

\* Requests of callers holding every permission, with every body.
ListDrinks == GetDrinksBy(Callers)
ListDrinksDetail == GetDrinksDetailBy(Staff)
CreateDrink == PostDrinkBy(Staff, PostBodies, MaxDrinks)
UpdateDrink == PatchDrinkBy(Staff, PatchBodies)
RemoveDrink == DeleteDrinkBy(Staff)

NextCrud == ListDrinks \/ ListDrinksDetail \/ CreateDrink \/ UpdateDrink \/ RemoveDrink

SpecCrud == Init /\ [][NextCrud]_vars

\* Requests of the same callers, with the recipes that are no plain
\* sequence of ingredients.
CreateOddDrink == PostDrinkBy(Staff, OddPostBodies, MaxDrinks)
UpdateOddDrink == PatchDrinkBy(Staff, OddPatchBodies)

NextOdd == ListDrinks \/ ListDrinksDetail \/ CreateOddDrink \/ UpdateOddDrink \/ RemoveDrink

SpecOdd == Init /\ [][NextOdd]_vars

\* ------------------------------------------------ requests in parallel
\* Each request runs on a session of its own, for a caller holding the
\* route's permission.  The poster runs post_private_long_drink: the insert
\* with its commit and the response are steps that the workers' steps may
\* separate.  Each worker runs patch_private_long_drink: the lookup, the
\* two assignments, the commit and the response are steps that the steps
\* of the others may separate.
RacePostBodies == {JsonBody(Water, WaterRecipe), JsonBody(Cocoa, NamelessRecipe)}
\* A PATCH of the title, of the recipe, or of both.
RacePatchBodies ==
    {JsonBody(ti, Absent) : ti \in Titles}
    \cup {JsonBody(Absent, re) : re \in {WaterRecipe, NamelessRecipe}}
    \cup RacePostBodies

SelectOthers(seq, w) == SelectSeq(seq, LAMBDA x : x # w)

\* res = request.get_json(); drink = Drink.query.get(drink_id)
PatchLookup(w) ==
    /\ pc[w] \in {"idle", "done"}
    /\ \E id \in 1 .. RaceDrinks, body \in RacePatchBodies :
          LET row == IF query_get(drinks, id) THEN drinks[id] ELSE NoRow IN
          session' = [session EXCEPT ![w] =
                         [id |-> id, body |-> body, found |-> query_get(drinks, id),
                          loaded |-> row, assigned |-> row]]
    /\ pc' = [pc EXCEPT ![w] = "looked"]
    /\ answer' = [answer EXCEPT ![w] = NoResponse]
    /\ commits' = SelectOthers(commits, w)
    /\ UNCHANGED <<drinks, nextId, req, resp>>

\* drink.title = ...; drink.recipe = ...: with drink None the first raises
\* and the except branch answers 404.
PatchAssign(w) ==
    /\ pc[w] = "looked"
    /\ LET s == session[w] IN
       IF ~s.found
       THEN /\ answer' = [answer EXCEPT ![w] = ErrorEnvelope(404)]
            /\ pc' = [pc EXCEPT ![w] = "done"]
            /\ UNCHANGED session
       ELSE /\ session' = [session EXCEPT ![w].assigned =
                              Row(get(s.body.title, s.loaded.title),
                                  NormalizeRecipe(get(s.body.recipe, JStr(s.loaded.recipe))))]
            /\ pc' = [pc EXCEPT ![w] = "assigned"]
            /\ UNCHANGED answer
    /\ UNCHANGED <<drinks, nextId, req, resp, commits>>

\* The row after the session's flush.  drink is an object of db.session,
\* the SQLAlchemy session that api.py imports at line 7 and rolls back and
\* closes at lines 118 and 123; lines 107-108 assign its attributes and no
\* line writes SQL.  The session's commit flushes its unit of work: the
\* UPDATE sets the columns whose assigned value differs from the value the
\* session loaded, and there is no UPDATE when none differs.
Flush(row, s) ==
    Row(IF s.assigned.title # s.loaded.title THEN s.assigned.title ELSE row.title,
        IF s.assigned.recipe # s.loaded.recipe THEN s.assigned.recipe ELSE row.recipe)

\* drink.update(): the flush and the commit, which ends the transaction.
\* An UPDATE that matches no row raises (500).
PatchCommit(w) ==
    /\ pc[w] = "assigned"
    /\ LET s == session[w] IN
       IF s.assigned # s.loaded /\ ~query_get(drinks, s.id)
       THEN /\ answer' = [answer EXCEPT ![w] = ErrorEnvelope(500)]
            /\ pc' = [pc EXCEPT ![w] = "done"]
            /\ UNCHANGED <<drinks, commits>>
       ELSE /\ drinks' = IF query_get(drinks, s.id)
                         THEN update(drinks, s.id, Flush(drinks[s.id], s))
                         ELSE drinks
            /\ commits' = Append(commits, w)
            /\ pc' = [pc EXCEPT ![w] = "committed"]
            /\ UNCHANGED answer
    /\ UNCHANGED <<nextId, req, resp, session>>

\* The response: the commit expired the drink's attributes, so long() reads
\* the row as it is now.  Reading a row that is gone raises, and so does a
\* recipe that is not JSON (500).
PatchRespond(w) ==
    /\ pc[w] = "committed"
    /\ LET s == session[w]
           l == IF query_get(drinks, s.id) THEN long(drinks, s.id) ELSE Raised
       IN  answer' = [answer EXCEPT ![w] =
                         IF l.ok THEN OkDrinks(<<l.v>>) ELSE ErrorEnvelope(500)]
    /\ pc' = [pc EXCEPT ![w] = "done"]
    /\ UNCHANGED <<drinks, nextId, req, resp, session, commits>>

\* res = request.get_json() ... drink.insert(): the row is written and
\* committed.  get_json() raising is answered by the except branch (500).
PostInsert ==
    /\ pc[Poster] \in {"idle", "done"}
    /\ nextId <= RaceDrinks
    /\ \E body \in RacePostBodies :
          IF ~body.json
          THEN /\ answer' = [answer EXCEPT ![Poster] = ErrorEnvelope(500)]
               /\ pc' = [pc EXCEPT ![Poster] = "done"]
               /\ UNCHANGED <<drinks, nextId, session>>
          ELSE \E row \in {Row(get(body.title, JNull),
                                NormalizeRecipe(get(body.recipe, JNull)))} :
               /\ drinks' = insert(drinks, nextId, row)
               /\ nextId' = nextId + 1
               /\ session' = [session EXCEPT ![Poster] =
                                  [id |-> nextId, body |-> body, found |-> TRUE,
                                   loaded |-> row, assigned |-> row]]
               /\ answer' = [answer EXCEPT ![Poster] = NoResponse]
               /\ pc' = [pc EXCEPT ![Poster] = "inserted"]
    /\ UNCHANGED <<req, resp, commits>>

\* The response: the commit expired the drink's attributes, so long() reads
\* the row as it is now.  A recipe that is not JSON raises, and the
\* rollback of the except branch finds nothing to undo (500).
PostRespond ==
    /\ pc[Poster] = "inserted"
    /\ \E l \in {long(drinks, session[Poster].id)} :
          answer' = [answer EXCEPT ![Poster] =
                        IF l.ok THEN OkDrinks(<<l.v>>) ELSE ErrorEnvelope(500)]
    /\ pc' = [pc EXCEPT ![Poster] = "done"]
    /\ UNCHANGED <<drinks, nextId, req, resp, session, commits>>

NextRace ==
    \/ PostInsert
    \/ PostRespond
    \/ \E w \in Workers : PatchLookup(w)
    \/ \E w \in Workers : PatchAssign(w)
    \/ \E w \in Workers : PatchCommit(w)
    \/ \E w \in Workers : PatchRespond(w)

SpecRace == Init /\ [][NextRace]_vars

\* ------------------------------------------------------------- claims
ProtectedRoutes == {"GET /drinks-detail", "POST /drinks", "PATCH /drinks", "DELETE /drinks"}
MutatingRoutes == {"POST /drinks", "PATCH /drinks", "DELETE /drinks"}
RequiredPermission(route) ==
    CASE route = "GET /drinks-detail" -> "get:drinks-detail"
      [] route = "POST /drinks"       -> "post:drinks"
      [] route = "PATCH /drinks"      -> "patch:drinks"
      [] route = "DELETE /drinks"     -> "delete:drinks"

\* C1: on each protected route, in every state of the table, a request
\* without a valid token is answered 401 with success false, and one whose
\* valid token lacks the route's own permission is answered 403 with
\* success false, whatever other permission the token holds.
C1_Unauthorized ==
    req.route \in ProtectedRoutes =>
        /\ req.token.kind # "valid" => resp.status = 401 /\ resp.success = FALSE
        /\ (req.token.kind = "valid"
            /\ RequiredPermission(req.route) \notin req.token.perms)
               => resp.status = 403 /\ resp.success = FALSE

\* A PATCH of an existing row by a token holding only post:drinks got 403.
C1_Witness ==
    /\ req.route = "PATCH /drinks"
    /\ req.token = ValidToken({"post:drinks"})
    /\ req.id \in DOMAIN drinks
    /\ resp.status = 403

\* C2: a POST, PATCH or DELETE answered 401 or 403 leaves the table as it
\* was: the same rows, each with the same title and recipe, and the same
\* next id.
C2_RejectedLeavesStore ==
    [][(req'.route \in MutatingRoutes /\ resp'.status \in {401, 403})
          => (drinks' = drinks /\ nextId' = nextId)]_vars

\* A PATCH with a recipe, of an existing row, was rejected with 403.
C2_Witness ==
    /\ req.route = "PATCH /drinks"
    /\ req.id \in DOMAIN drinks
    /\ req.body.json /\ req.body.recipe # Absent
    /\ resp.status = 403

\* The request was let through by the decorator of its route.
Authorized(r) ==
    r.token.kind = "valid" /\ RequiredPermission(r.route) \in r.token.perms
LongRoutes == {"GET /drinks-detail", "POST /drinks", "PATCH /drinks"}
\* The ingredient entries of a projected recipe.
Entries(v) == IF v.t = "list" THEN v.xs ELSE <<v>>
\* A JSON sequence of ingredient objects.
IsRecipe(v) == v.t = "list" /\ \A i \in DOMAIN v.xs : v.xs[i].t = "obj"
NoName(d) == \A i \in DOMAIN Entries(d.recipe) : ~HasKey(Entries(d.recipe)[i], NameKey)
AllNamed(d) == \A i \in DOMAIN Entries(d.recipe) : HasKey(Entries(d.recipe)[i], NameKey)
ShortHasNoName ==
    (req.route = "GET /drinks" /\ resp.status = 200)
        => \A k \in DOMAIN resp.drinks : NoName(resp.drinks[k])

\* C3 as stated: no entry of the short projection of GET /drinks has a name,
\* and every entry of the long projection of GET /drinks-detail, POST and
\* PATCH has one.
C3_LongAlwaysNamed ==
    /\ ShortHasNoName
    /\ (req.route \in LongRoutes /\ resp.status = 200)
          => \A k \in DOMAIN resp.drinks : AllNamed(resp.drinks[k])

\* C3 as amended: no entry of the short projection of GET /drinks has a
\* name, and the long projection of GET /drinks-detail, POST and PATCH has,
\* entry for entry, the name of every stored ingredient that has one.
C3_LongKeepsNames ==
    /\ ShortHasNoName
    /\ (req.route \in LongRoutes /\ resp.status = 200)
          => \A k \in DOMAIN resp.drinks :
                LET d == resp.drinks[k]
                    stored == json_loads(drinks[d.id].recipe)
                IN  /\ d.id \in DOMAIN drinks
                    /\ stored.ok
                    /\ Len(Entries(d.recipe)) = Len(Entries(stored.v))
                    /\ \A i \in DOMAIN Entries(stored.v) :
                          HasKey(Entries(stored.v)[i], NameKey)
                             => /\ HasKey(Entries(d.recipe)[i], NameKey)
                                /\ Lookup(Entries(d.recipe)[i], NameKey)
                                     = Lookup(Entries(stored.v)[i], NameKey)

\* The detail route listed a drink whose ingredient has a name and one whose
\* ingredient has none.
C3_Witness ==
    /\ req.route = "GET /drinks-detail" /\ resp.status = 200
    /\ \E k \in DOMAIN resp.drinks : AllNamed(resp.drinks[k])
    /\ \E k \in DOMAIN resp.drinks : NoName(resp.drinks[k])

\* C4: an authorized PATCH of an existing row whose body has only a title
\* leaves the row's stored recipe as it was, and one whose body has only a
\* recipe leaves its stored title as it was.
C4_PartialUpdate ==
    [][(/\ req'.route = "PATCH /drinks" /\ Authorized(req')
        /\ req'.body.json /\ req'.id \in DOMAIN drinks)
       => /\ req'.id \in DOMAIN drinks'
          /\ (req'.body.title # Absent /\ req'.body.recipe = Absent)
                => drinks'[req'.id].recipe = drinks[req'.id].recipe
          /\ (req'.body.title = Absent /\ req'.body.recipe # Absent)
                => drinks'[req'.id].title = drinks[req'.id].title]_vars

\* A PATCH with only a title was answered 200 with that title, for a row
\* whose recipe came from a POST.
C4_Witness ==
    /\ req.route = "PATCH /drinks" /\ Authorized(req)
    /\ req.body.json /\ req.body.title # Absent /\ req.body.recipe = Absent
    /\ resp.status = 200
    /\ drinks[req.id].title = req.body.title
    /\ drinks[req.id].recipe = NormalizeRecipe(NamelessRecipe)

\* C5: an authorized PATCH or DELETE of an id that matches no row is
\* answered 404, whatever the body, and leaves the table as it was.
C5_MissingIs404 ==
    [][(/\ req'.route \in {"PATCH /drinks", "DELETE /drinks"} /\ Authorized(req')
        /\ req'.id \notin DOMAIN drinks)
       => (resp'.status = 404 /\ drinks' = drinks)]_vars

\* The rows a 200 answer of either GET lists are the rows of the table.
GetListsTable ==
    (req.route \in {"GET /drinks", "GET /drinks-detail"} /\ resp.status = 200)
        => /\ Len(resp.drinks) = Cardinality(DOMAIN drinks)
           /\ \A k \in DOMAIN resp.drinks : resp.drinks[k].id \in DOMAIN drinks

\* C6: a DELETE answered 200 removes its row and leaves every other row
\* with its id, title and recipe; a removed id never comes back, and a GET
\* answered 200 lists the rows of the table and no other.
C6_DeleteRemoves ==
    /\ [][(req'.route = "DELETE /drinks" /\ resp'.status = 200)
            => /\ req'.id \in DOMAIN drinks
               /\ DOMAIN drinks' = DOMAIN drinks \ {req'.id}
               /\ \A i \in DOMAIN drinks' : drinks'[i] = drinks[i]]_vars
    /\ [][\A i \in 1 .. (nextId - 1) :
              i \notin DOMAIN drinks => i \notin DOMAIN drinks']_vars
    /\ []GetListsTable

\* A DELETE was answered 200, its row is gone and another row is left.
C6_Witness ==
    /\ req.route = "DELETE /drinks" /\ resp.status = 200
    /\ resp.delete = req.id
    /\ req.id \notin DOMAIN drinks
    /\ DOMAIN drinks # {}

\* C7: an authorized POST with a title and a JSON sequence of ingredient
\* objects is answered 200 with one drink whose long projection has that
\* title and exactly that recipe, and the stored row deserializes to it.
C7_PostRoundTrip ==
    (/\ req.route = "POST /drinks" /\ Authorized(req)
     /\ req.body.json /\ req.body.title # Absent
     /\ req.body.recipe # Absent /\ IsRecipe(req.body.recipe))
    => /\ resp.status = 200
       /\ Len(resp.drinks) = 1
       /\ resp.drinks[1].title = req.body.title
       /\ resp.drinks[1].recipe = req.body.recipe
       /\ resp.drinks[1].id \in DOMAIN drinks
       /\ json_loads(drinks[resp.drinks[1].id].recipe)
            = [ok |-> TRUE, v |-> req.body.recipe]

\* C8: an authorized POST, PATCH or DELETE answered 404 or 500 leaves the
\* table as it was before the request.
C8_ErrorRollsBack ==
    [][(/\ req'.route \in MutatingRoutes /\ Authorized(req')
        /\ resp'.status \in {404, 500})
       => drinks' = drinks]_vars

\* C9: every stored recipe deserializes to a sequence of objects, and
\* GET /drinks is answered 200.
C9_StoredRecipesValid ==
    /\ \A i \in DOMAIN drinks :
          LET r == json_loads(drinks[i].recipe) IN r.ok /\ IsRecipe(r.v)
    /\ req.route = "GET /drinks" => resp.status = 200

=============================================================================
